---- MODULE Spec2Model ----
(***************************************************************************)
(* Metered billing and asynchronous task tracking of ai_marketing_server:  *)
(* the Task Registry (modules/coze/task_manager.py), the Billing Service   *)
(* (utils/point_service.py over crud/user.py, crud/point_record.py and     *)
(* utils/point_calculator.py), the poll handler (modules/coze/router.py,   *)
(* modules/coze/controller.py) and the Streaming Meter                     *)
(* (utils/streaming_point_middleware.py).                                  *)
(***************************************************************************)
EXTENDS Integers, Sequences, FiniteSets, TLC

None == "None"

(***************************************************************************)
(* Bounds of the model.                                                    *)
(***************************************************************************)
NumThreads == 2
MaxCalls == 3

NumCallers == 2
MaxBalance == 2
MaxChunks == 2
MaxRequests == 3

Threads == 1..NumThreads
Callers == 1..NumCallers
TaskIds == {"t1", "t2"}
WorkflowIds == {"wfA", "wfB"}
RegistryOps == {"add", "get", "delete"}
Uids == {"u1", "u2"}

VARIABLES
    tasks,      \* TaskManager._tasks: task_id -> workflow_id, None when absent
    lock,       \* TaskManager._lock: the holding thread, 0 when free
    rpc,        \* position of each thread in its TaskManager call
    rop,        \* the method the thread is calling
    rtid,       \* its task_id argument
    rwf,        \* its workflow_id argument (add_task)
    rret,       \* what the call returned or raised
    rsnap,      \* the registry as it was when the thread entered the lock
    rcalls,     \* calls started so far, by all threads
    absTasks,   \* the registry of the sequential reference, stepped at lock entry
    rexp,       \* the result the sequential reference gives the call
    cfgs,       \* table point_configs: workflow_id -> its rows (at most one)
    userRows,   \* table users: the uids with a row that is not soft-deleted
    bal,        \* users.point, by uid
    ledger,     \* table point_records, in insertion order
    cpos,       \* position of each caller in PointService.consume_points
    cargs,      \* the arguments of that call
    ctotal,     \* its local `total`
    cres,       \* what the call returned or raised
    cbal0,      \* the balance of the call's user when the call started
    cdebit,     \* what the call's UPDATE has taken from the balance
    jobs,       \* the job engine: task_id -> "none", "Running", "Success", "Fail"
    jobOut,     \* the output of each job that succeeded
    jobWf,      \* the workflow each job was submitted for
    jobUser,    \* the user whose request submitted each job
    hpc,        \* position of each request handler
    hreq,       \* the handler's request: user, task_id, the router's workflow_id
    hret,       \* the response to the handler's request (None until it is answered)
    nreq,       \* requests started so far
    delivered,  \* per task_id, the polls that returned the success result
    jobEntries, \* per task_id, the point_records rows its polls appended
    jobDebit,   \* per task_id, what its polls took from the balance
    upstream,   \* the chunks the upstream generator will produce, in order
    upEnd,      \* how the upstream ends after them: "end" or "error"
    upos,       \* chunks taken from the upstream so far
    gpc,        \* position of the wrapping generator
    gwf,        \* its workflow_id
    buffer,     \* its local `buffer`
    char_count, \* its local `char_count`
    yielded,    \* the chunks it has yielded to the consumer, in order
    pending,    \* the exception in flight while the finally block runs
    seen,       \* how the consumer saw the generator end
    fcalls,     \* the consume_points calls the finally block has made
    calcArgs,   \* the arguments of a calculate_consumption call
    calcRes     \* what that call returned or raised, once it has been made

regVars == <<tasks, lock, rpc, rop, rtid, rwf, rret, rsnap, rcalls, absTasks, rexp>>
dbVars == <<cfgs, userRows, bal, ledger>>
callVars == <<cpos, cargs, ctotal, cres, cbal0, cdebit>>
pollVars == <<jobs, jobOut, jobWf, jobUser, hpc, hreq, hret, nreq, delivered, jobEntries,
              jobDebit>>

streamVars == <<upstream, upEnd, upos, gpc, gwf, buffer, char_count, yielded, pending,
                seen, fcalls>>

calcVars == <<calcArgs, calcRes>>

vars == <<regVars, dbVars, callVars, streamVars, pollVars, calcVars>>

\* What each component's steps leave alone.
notRegVars == <<dbVars, callVars, streamVars, pollVars, calcVars>>
notCallVars == <<regVars, streamVars, pollVars, calcVars>>
notStreamVars == <<regVars, pollVars, calcVars>>

----------------------------------------------------------------------------
(***************************************************************************)
(* Task Registry: modules/coze/task_manager.py                             *)
(***************************************************************************)

EmptyRegistry == [k \in TaskIds |-> None]

\* The sequential meaning of one call on a registry value: result and registry after.
SeqApply(reg, op, tid, wf) ==
    CASE op = "add" ->
            IF reg[tid] # None
                THEN [ret |-> "ValueError", reg |-> reg]
                ELSE [ret |-> "ok", reg |-> [reg EXCEPT ![tid] = wf]]
      [] op = "delete" ->
            IF reg[tid] = None
                THEN [ret |-> "KeyError", reg |-> reg]
                ELSE [ret |-> "ok", reg |-> [reg EXCEPT ![tid] = None]]
      [] OTHER -> [ret |-> reg[tid], reg |-> reg]

\* A caller invokes add_task, delete_task or get_workflow_id.
RegistryCall(t) ==
    /\ rpc[t] = "idle"
    /\ rcalls < MaxCalls
    /\ \E op \in RegistryOps, tid \in TaskIds, wf \in WorkflowIds :
          /\ rop' = [rop EXCEPT ![t] = op]
          /\ rtid' = [rtid EXCEPT ![t] = tid]
          /\ rwf' = [rwf EXCEPT ![t] = IF op = "add" THEN wf ELSE None]
    /\ rpc' = [rpc EXCEPT ![t] = "acquire"]
    /\ rcalls' = rcalls + 1
    /\ UNCHANGED <<tasks, lock, rret, rsnap, absTasks, rexp>>
    /\ UNCHANGED notRegVars

LockMutantNoExclusion(t) == TRUE

\* threading.Lock: acquire blocks while another thread holds the lock.
LockAvailable(t) == lock = 0

\* `with self._lock:` entry.
LockAcquire(t) ==
    /\ rpc[t] = "acquire"
    /\ LockAvailable(t)
    /\ lock' = t
    /\ rsnap' = [rsnap EXCEPT ![t] = tasks]
    /\ LET s == SeqApply(absTasks, rop[t], rtid[t], rwf[t]) IN
          /\ absTasks' = s.reg
          /\ rexp' = [rexp EXCEPT ![t] = s.ret]
    /\ rpc' = [rpc EXCEPT ![t] = "body"]
    /\ UNCHANGED <<tasks, rop, rtid, rwf, rret, rcalls>>
    /\ UNCHANGED notRegVars

AddCheckMutantOverwrite(reg, tid) == FALSE

\* add_task: `if task_id in self._tasks`
AddCheck(reg, tid) == reg[tid] # None

\* add_task, the membership test: raise ValueError, or go on to the store.
add_task_check(t) ==
    /\ rpc[t] = "body"
    /\ rop[t] = "add"
    /\ IF AddCheck(tasks, rtid[t])
          THEN /\ rret' = [rret EXCEPT ![t] = "ValueError"]
               /\ rpc' = [rpc EXCEPT ![t] = "release"]
          ELSE /\ rpc' = [rpc EXCEPT ![t] = "store"]
               /\ UNCHANGED rret
    /\ UNCHANGED <<tasks, lock, rop, rtid, rwf, rsnap, rcalls, absTasks, rexp>>
    /\ UNCHANGED notRegVars

\* add_task: `self._tasks[task_id] = workflow_id`
add_task_store(t) ==
    /\ rpc[t] = "store"
    /\ tasks' = [tasks EXCEPT ![rtid[t]] = rwf[t]]
    /\ rret' = [rret EXCEPT ![t] = "ok"]
    /\ rpc' = [rpc EXCEPT ![t] = "release"]
    /\ UNCHANGED <<lock, rop, rtid, rwf, rsnap, rcalls, absTasks, rexp>>
    /\ UNCHANGED notRegVars

DeleteCheckMutantSilent(reg, tid) == FALSE

\* delete_task: `if task_id not in self._tasks`
DeleteCheck(reg, tid) == reg[tid] = None

\* delete_task, the membership test: raise KeyError, or go on to the del.
delete_task_check(t) ==
    /\ rpc[t] = "body"
    /\ rop[t] = "delete"
    /\ IF DeleteCheck(tasks, rtid[t])
          THEN /\ rret' = [rret EXCEPT ![t] = "KeyError"]
               /\ rpc' = [rpc EXCEPT ![t] = "release"]
          ELSE /\ rpc' = [rpc EXCEPT ![t] = "del"]
               /\ UNCHANGED rret
    /\ UNCHANGED <<tasks, lock, rop, rtid, rwf, rsnap, rcalls, absTasks, rexp>>
    /\ UNCHANGED notRegVars

\* delete_task: `del self._tasks[task_id]`
delete_task_del(t) ==
    /\ rpc[t] = "del"
    /\ tasks' = [tasks EXCEPT ![rtid[t]] = None]
    /\ rret' = [rret EXCEPT ![t] = "ok"]
    /\ rpc' = [rpc EXCEPT ![t] = "release"]
    /\ UNCHANGED <<lock, rop, rtid, rwf, rsnap, rcalls, absTasks, rexp>>
    /\ UNCHANGED notRegVars

\* get_workflow_id: `return self._tasks.get(task_id)`
get_workflow_id(t) ==
    /\ rpc[t] = "body"
    /\ rop[t] = "get"
    /\ rret' = [rret EXCEPT ![t] = tasks[rtid[t]]]
    /\ rpc' = [rpc EXCEPT ![t] = "release"]
    /\ UNCHANGED <<tasks, lock, rop, rtid, rwf, rsnap, rcalls, absTasks, rexp>>
    /\ UNCHANGED notRegVars

\* Leaving the `with` block, by return or by raise, releases the lock.
LockRelease(t) ==
    /\ rpc[t] = "release"
    /\ lock' = IF lock = t THEN 0 ELSE lock
    /\ rpc' = [rpc EXCEPT ![t] = "done"]
    /\ UNCHANGED <<tasks, rop, rtid, rwf, rret, rsnap, rcalls, absTasks, rexp>>
    /\ UNCHANGED notRegVars

\* The caller takes the result; the thread is free for its next call.
RegistryReturn(t) ==
    /\ rpc[t] = "done"
    /\ rpc' = [rpc EXCEPT ![t] = "idle"]
    /\ rop' = [rop EXCEPT ![t] = None]
    /\ rtid' = [rtid EXCEPT ![t] = None]
    /\ rwf' = [rwf EXCEPT ![t] = None]
    /\ rret' = [rret EXCEPT ![t] = None]
    /\ rexp' = [rexp EXCEPT ![t] = None]
    /\ rsnap' = [rsnap EXCEPT ![t] = EmptyRegistry]
    /\ UNCHANGED <<tasks, lock, rcalls, absTasks>>
    /\ UNCHANGED notRegVars

RegistryInit ==
    /\ tasks = EmptyRegistry
    /\ lock = 0
    /\ rpc = [t \in Threads |-> "idle"]
    /\ rop = [t \in Threads |-> None]
    /\ rtid = [t \in Threads |-> None]
    /\ rwf = [t \in Threads |-> None]
    /\ rret = [t \in Threads |-> None]
    /\ rsnap = [t \in Threads |-> EmptyRegistry]
    /\ rcalls = 0
    /\ absTasks = EmptyRegistry
    /\ rexp = [t \in Threads |-> None]

RegistryNext ==
    \E t \in Threads :
        \/ RegistryCall(t)
        \/ LockAcquire(t)
        \/ add_task_check(t)
        \/ add_task_store(t)
        \/ delete_task_check(t)
        \/ delete_task_del(t)
        \/ get_workflow_id(t)
        \/ LockRelease(t)
        \/ RegistryReturn(t)

----------------------------------------------------------------------------
(***************************************************************************)
(* Cost Calculator: utils/point_calculator.py                              *)
(***************************************************************************)

\* class MeasureUnit
MU_NONE == 0
MU_CHAR == 1
MU_PER_CALL == 2
MU_PER_MINUTE == 3
SecondsPerMinute == 60

\* Amounts are counted in quanta of Decimal('0.000001'), the scale the results
\* are quantized to and the Numeric(18, 6) columns store. The token argument
\* of the calculator is a Decimal of any scale: it is counted in tenths of a
\* quantum, one fractional digit more.
TenthsPerQuantum == 10

\* A Numeric(18, 6) column value as the Decimal it is read as.
FromNumeric(n) == n * TenthsPerQuantum

\* A usage_amount: absent (None), an integer, or a str that is not a number.
Absent == [some |-> FALSE, v |-> 0, text |-> FALSE]
Some(n) == [some |-> TRUE, v |-> n, text |-> FALSE]
Malformed == [some |-> TRUE, v |-> 0, text |-> TRUE]

OrDefaultMutantOffByOne(x, d) == IF x.some /\ x.v # 0 THEN x.v ELSE d + 1

\* Python `x or d` on an Optional[int]: d when x is None or 0.
OrDefault(x, d) == IF x.some /\ x.v # 0 THEN x.v ELSE d

CeilDivMutantFloor(a, b) == a \div b

\* math.ceil(a / b) for b > 0.
CeilDiv(a, b) == -((-a) \div b)

MaxMutantMin(a, b) == IF a <= b THEN a ELSE b

Max(a, b) == IF a >= b THEN a ELSE b

NormalizeUnitMutantKeep(unit) == IF unit = 0 THEN 1 ELSE unit

\* u = int(unit or 1); if u <= 0: u = 1
NormalizeUnit(unit) ==
    IF OrDefault(Some(unit), 1) <= 0 THEN 1 ELSE OrDefault(Some(unit), 1)

QuantizeMutantTruncate(x) == x \div TenthsPerQuantum

\* Decimal.quantize(Decimal('0.000001'), rounding=ROUND_HALF_UP) of an amount
\* given in tenths of a quantum: the nearest quantum, a tie going away from zero.
Quantize(x) ==
    IF x >= 0
        THEN (2 * x + TenthsPerQuantum) \div (2 * TenthsPerQuantum)
        ELSE -((2 * (-x) + TenthsPerQuantum) \div (2 * TenthsPerQuantum))

\* Whether calculate_consumption raises: `int(usage_amount or ...)` is outside
\* any try block and raises ValueError on a str that is not a number; only the
\* conversion of token is guarded.
calculate_consumption_raises(token, measure_unit, usage_amount) ==
    /\ token > 0
    /\ measure_unit \in {MU_PER_CALL, MU_CHAR, MU_PER_MINUTE}
    /\ usage_amount.text

\* calculate_consumption(token, measure_unit, unit, usage_amount): the Decimal
\* it returns, in quanta.
calculate_consumption(token, measure_unit, unit, usage_amount) ==
    LET u == NormalizeUnit(unit) IN
    IF token <= 0 THEN 0
    ELSE IF measure_unit = MU_NONE THEN 0
    ELSE IF measure_unit = MU_PER_CALL
        THEN Quantize(token * CeilDiv(OrDefault(usage_amount, 1), u))
    ELSE IF measure_unit = MU_CHAR
        THEN (IF OrDefault(usage_amount, 0) <= 0 THEN 0
              ELSE Quantize(token * CeilDiv(OrDefault(usage_amount, 0), u)))
    ELSE IF measure_unit = MU_PER_MINUTE
        THEN LET seconds == OrDefault(usage_amount, 0)
                 minutes == IF seconds > 0
                               THEN Max(1, CeilDiv(seconds, SecondsPerMinute))
                               ELSE 1
             IN Quantize(token * CeilDiv(minutes, u))
    ELSE 0

----------------------------------------------------------------------------
(***************************************************************************)
(* Balance Ledger and Billing Service: db/point_config.py,                 *)
(* crud/point_config.py, crud/user.py, crud/point_record.py,               *)
(* utils/point_service.py                                                  *)
(***************************************************************************)

\* class PointConfig: the mapped columns, which are the attributes of a row object.
PointConfigColumns ==
    {"id", "uid", "function_name", "workflow_id", "measure_unit", "token", "unit",
     "is_enable", "created_time", "updated_time"}

\* The point_configs rows the model draws from: [token, measure_unit, unit, is_enable].
PolicyRows ==
    { [token |-> 2, measure_unit |-> MU_CHAR, unit |-> 2, is_enable |-> 1],
      [token |-> 1, measure_unit |-> MU_PER_CALL, unit |-> 1, is_enable |-> 1],
      [token |-> 1, measure_unit |-> MU_PER_MINUTE, unit |-> 1, is_enable |-> 1],
      [token |-> 2, measure_unit |-> MU_PER_CALL, unit |-> 1, is_enable |-> 0] }

\* usage_amount values a caller passes.
Usages == {Absent, Some(0), Some(3)}

\* get_point_config_by_workflow_id: the enabled row of the workflow, if any
\* (the empty set stands for None).
get_point_config_by_workflow_id(table, workflow_id) ==
    {r \in table[workflow_id] : r.is_enable = 1}

\* What a call site passes (positional count, keyword names) against what the
\* callee declares (parameter names in order, how many of them have no default):
\* Python raises TypeError unless every keyword names a parameter not already
\* filled positionally and every parameter without a default is filled.
CallBinds(params, nrequired, npos, kwargs) ==
    /\ npos <= Len(params)
    /\ \A k \in kwargs : \E i \in (npos + 1)..Len(params) : params[i] = k
    /\ \A i \in (npos + 1)..nrequired : params[i] \in kwargs

\* def calculate_consumption(token, measure_unit, unit, usage_amount)
CalculateConsumptionParams == <<"token", "measure_unit", "unit", "usage_amount">>

\* def format_consumption_desc(function_name, token, measure_unit, unit,
\*                             usage_amount, total_cost)
FormatConsumptionDescParams ==
    <<"function_name", "token", "measure_unit", "unit", "usage_amount", "total_cost">>

\* def update_user_point(db, user_uid, point_change, allow_negative=False)
UpdateUserPointParams == <<"db", "user_uid", "point_change", "allow_negative">>

\* def create_point_record(db, from_user_uid, point, record_type, record_desc=None,
\*                         function_name=None, from_uid=None)
CreatePointRecordParams ==
    <<"db", "from_user_uid", "point", "record_type", "record_desc", "function_name",
      "from_uid">>

CalculateMutantNoFreeCheck(table, workflow_id, usage_amount) ==
    IF "consume" \notin PointConfigColumns
        THEN [raised |-> "AttributeError", total |-> 0]
        ELSE [raised |-> "TypeError", total |-> 0]

\* PointService.calculate: (raised, total). It reads cfg.consume, passes three
\* positional arguments to calculate_consumption and five to
\* format_consumption_desc.
Calculate(table, workflow_id, usage_amount) ==
    LET cfg == get_point_config_by_workflow_id(table, workflow_id) IN
    IF cfg = {} \/ \A r \in cfg : r.is_enable # 1
        THEN [raised |-> None, total |-> 0]
    ELSE IF "consume" \notin PointConfigColumns
        THEN [raised |-> "AttributeError", total |-> 0]
    ELSE IF ~CallBinds(CalculateConsumptionParams, 4, 3, {})
        THEN [raised |-> "TypeError", total |-> 0]
    ELSE IF ~CallBinds(FormatConsumptionDescParams, 6, 5, {})
        THEN [raised |-> "TypeError", total |-> 0]
    ELSE LET r == CHOOSE r \in cfg : TRUE IN
         [raised |-> None,
          total |-> calculate_consumption(FromNumeric(r.token), r.measure_unit, r.unit,
                                          usage_amount)]

\* update_user_point's UPDATE statement: the WHERE clause beside `uid = :uid`.
UpdateCondition(point, delta, allow_negative) ==
    allow_negative \/ point + delta >= 0

\* update_user_point(db, user_uid, point_change, allow_negative):
\* (raised, balances after). None is returned, and nothing updated, when
\* get_user_by_uid finds no row; ValueError when the UPDATE matches no row.
update_user_point(rows, points, user_uid, point_change, allow_negative) ==
    IF user_uid \notin rows
        THEN [raised |-> None, bal |-> points]
    ELSE IF ~UpdateCondition(points[user_uid], point_change, allow_negative)
        THEN [raised |-> "ValueError", bal |-> points]
    ELSE [raised |-> None,
          bal |-> [points EXCEPT ![user_uid] = @ + point_change]]

\* create_point_record: the row added to point_records.
create_point_record(records, from_user_uid, point, record_type) ==
    Append(records,
           [from_user_uid |-> from_user_uid, point |-> point,
            record_type |-> record_type])

\* A caller starts PointService.consume_points(db, user_uid, from_user_uid,
\* workflow_id, usage_amount, allow_negative).
ConsumeCallWith(p, usages) ==
    /\ cpos[p] = "idle"
    /\ \E uid \in Uids, wf \in WorkflowIds, usage \in usages, neg \in BOOLEAN :
          /\ cargs' = [cargs EXCEPT ![p] =
                          [user_uid |-> uid, workflow_id |-> wf,
                           usage_amount |-> usage, allow_negative |-> neg]]
          /\ cbal0' = [cbal0 EXCEPT ![p] = bal[uid]]
    /\ cpos' = [cpos EXCEPT ![p] = "calculate"]
    /\ UNCHANGED <<dbVars, ctotal, cres, cdebit>>
    /\ UNCHANGED notCallVars

\* A call with one of the usage amounts the router and the meter pass.
ConsumeCall(p) == ConsumeCallWith(p, Usages)

\* usage_amount is a plain float parameter: a caller may pass a negative one.
SignedUsages == Usages \cup {Some(-1)}

\* A call with any usage amount, negative ones included.
ConsumeCallSigned(p) == ConsumeCallWith(p, SignedUsages)

\* PointService.consume_points, one database round trip at a time.
consume_points(p) ==
    /\ cpos[p] \in {"calculate", "update_user_point", "create_point_record"}
    /\ CASE cpos[p] = "calculate" ->
              LET c == Calculate(cfgs, cargs[p].workflow_id, cargs[p].usage_amount) IN
              /\ IF c.raised # None
                    THEN /\ cpos' = [cpos EXCEPT ![p] = "raised"]
                         /\ cres' = [cres EXCEPT ![p] = c.raised]
                    ELSE IF c.total <= 0
                    THEN /\ cpos' = [cpos EXCEPT ![p] = "returned"]
                         /\ cres' = [cres EXCEPT ![p] = "free"]
                    ELSE /\ cpos' = [cpos EXCEPT ![p] = "update_user_point"]
                         /\ UNCHANGED cres
              /\ ctotal' = [ctotal EXCEPT ![p] = c.total]
              /\ UNCHANGED <<bal, ledger, cdebit>>
         [] cpos[p] = "update_user_point" ->
              IF ~CallBinds(UpdateUserPointParams, 3, 1,
                            {"user_uid", "point_delta", "allow_negative"})
                 THEN /\ cpos' = [cpos EXCEPT ![p] = "raised"]
                      /\ cres' = [cres EXCEPT ![p] = "TypeError"]
                      /\ UNCHANGED <<bal, ledger, ctotal, cdebit>>
                 ELSE LET u == update_user_point(userRows, bal, cargs[p].user_uid,
                                                 -ctotal[p], cargs[p].allow_negative) IN
                      /\ bal' = u.bal
                      /\ cdebit' = [cdebit EXCEPT ![p] =
                                        bal[cargs[p].user_uid] - u.bal[cargs[p].user_uid]]
                      /\ IF u.raised # None
                            THEN /\ cpos' = [cpos EXCEPT ![p] = "raised"]
                                 /\ cres' = [cres EXCEPT ![p] = u.raised]
                            ELSE /\ cpos' = [cpos EXCEPT ![p] = "create_point_record"]
                                 /\ UNCHANGED cres
                      /\ UNCHANGED <<ledger, ctotal>>
         [] cpos[p] = "create_point_record" ->
              IF ~CallBinds(CreatePointRecordParams, 4, 1,
                            {"user_uid", "from_user_uid", "point", "record_type",
                             "record_desc"})
                 THEN /\ cpos' = [cpos EXCEPT ![p] = "raised"]
                      /\ cres' = [cres EXCEPT ![p] = "TypeError"]
                      /\ UNCHANGED <<bal, ledger, ctotal, cdebit>>
                 ELSE /\ ledger' = create_point_record(ledger, cargs[p].user_uid,
                                                       ctotal[p], 2)
                      /\ cpos' = [cpos EXCEPT ![p] = "returned"]
                      /\ cres' = [cres EXCEPT ![p] = "charged"]
                      /\ UNCHANGED <<bal, ctotal, cdebit>>
    /\ UNCHANGED <<cfgs, userRows, cargs, cbal0>>
    /\ UNCHANGED notCallVars

NoArgs == [user_uid |-> None, workflow_id |-> None, usage_amount |-> Absent,
           allow_negative |-> FALSE]

\* The tables the callers run against: no policy, or one policy row for each workflow.
DbInit ==
    /\ \E r \in PolicyRows :
          cfgs \in {[w \in WorkflowIds |-> {}], [w \in WorkflowIds |-> {r}]}
    /\ userRows = Uids
    /\ \E b \in 0..MaxBalance : bal = [u \in Uids |-> b]
    /\ ledger = <<>>

CallInit ==
    /\ cpos = [p \in Callers |-> "idle"]
    /\ cargs = [p \in Callers |-> NoArgs]
    /\ ctotal = [p \in Callers |-> 0]
    /\ cres = [p \in Callers |-> None]
    /\ cbal0 = [p \in Callers |-> 0]
    /\ cdebit = [p \in Callers |-> 0]

\* The tables when no billing takes place.
DbParked ==
    /\ cfgs = [w \in WorkflowIds |-> {}]
    /\ userRows = Uids
    /\ bal = [u \in Uids |-> 0]
    /\ ledger = <<>>

----------------------------------------------------------------------------
(***************************************************************************)
(* Streaming Meter: utils/streaming_point_middleware.py                    *)
(*                                                                         *)
(* Bytes are named by letters: "d" ":" stand for the prefix `data:`, "n"   *)
(* for the newline, " " for a blank, "x" for a letter, "Q" for a double    *)
(* quote, and "H" "T" are the two bytes of one two-byte UTF-8 character,   *)
(* which decodes to the character "u".                                     *)
(***************************************************************************)

\* The chunks an upstream produces.
ChunkSet ==
    { <<"d", ":", "x", "n">>,
      <<"d", ":">>,
      <<"x", "n">>,
      <<"d", ":", "H">>,
      <<"T", "n">>,
      <<"d", ":", " ", "H", "T">>,
      <<"d", ":", "Q", "x", "Q", "n">>,
      <<>> }

RECURSIVE SeqsUpTo(_, _)
\* The sequences over S of length at most n.
SeqsUpTo(S, n) ==
    IF n = 0 THEN {<<>>}
    ELSE LET shorter == SeqsUpTo(S, n - 1) IN
         shorter \cup {Append(q, c) : q \in shorter, c \in S}

Streams == SeqsUpTo(ChunkSet, MaxChunks)

\* How the upstream request of forward_sse can fail before any event data is
\* received: a status other than 200, httpx.ReadTimeout, httpx.ConnectTimeout,
\* any other exception (a connection error).
UpstreamFailures == {"status", "ReadTimeout", "ConnectTimeout", "Exception"}

\* The frame forward_sse builds on such a failure, f"data: {message}\n\n"
\* encoded: the message is plain text of several words, none of it JSON.
ErrorFrame(failure) ==
    <<"d", ":", " ", "x", " ">>
        \o (IF failure = "status" THEN <<"x">> ELSE <<"x", "x">>)
        \o <<"n", "n">>

\* forward_sse as an upstream generator: the chunks of the response, or the
\* one error frame when the request failed, and then the end.
forward_sse(failure, chunks) ==
    IF failure = None THEN chunks ELSE <<ErrorFrame(failure)>>

\* The generators forward_sse can be for a request that failed at once.
FailedStreams == {forward_sse(f, <<>>) : f \in UpstreamFailures}

RECURSIVE Decode(_)
\* chunk.decode("utf-8", errors="ignore"): a lead byte followed by its
\* continuation byte is one character, a lead or continuation byte on its own
\* is dropped.
Decode(bytes) ==
    IF bytes = <<>> THEN <<>>
    ELSE IF Head(bytes) = "H"
        THEN IF Len(bytes) >= 2 /\ bytes[2] = "T"
                THEN <<"u">> \o Decode(SubSeq(bytes, 3, Len(bytes)))
                ELSE Decode(Tail(bytes))
    ELSE IF Head(bytes) = "T" THEN Decode(Tail(bytes))
    ELSE <<Head(bytes)>> \o Decode(Tail(bytes))

\* str.find("\n"): the first index of the newline, 0 when there is none.
FindNewline(str) ==
    IF \E i \in 1..Len(str) : str[i] = "n"
        THEN CHOOSE i \in 1..Len(str) : str[i] = "n" /\ \A j \in 1..(i - 1) : str[j] # "n"
        ELSE 0

Whitespace == {" ", "n"}

RECURSIVE Strip(_)
\* str.strip()
Strip(str) ==
    IF str = <<>> THEN <<>>
    ELSE IF Head(str) \in Whitespace THEN Strip(Tail(str))
    ELSE IF str[Len(str)] \in Whitespace THEN Strip(SubSeq(str, 1, Len(str) - 1))
    ELSE str

DataPrefix == <<"d", ":">>

\* line.startswith("data:")
StartsWithData(line) ==
    Len(line) >= Len(DataPrefix) /\ SubSeq(line, 1, Len(DataPrefix)) = DataPrefix

\* json.loads(payload) succeeds on a quoted string (the only JSON text these
\* bytes can spell); _count_text_in_json of a str is its length.
IsJsonString(payload) ==
    /\ Len(payload) >= 2
    /\ payload[1] = "Q" /\ payload[Len(payload)] = "Q"
    /\ \A i \in 2..(Len(payload) - 1) : payload[i] # "Q"

\* What one line adds to char_count.
LineCount(line) ==
    IF ~StartsWithData(line) THEN 0
    ELSE LET payload == Strip(SubSeq(line, Len(DataPrefix) + 1, Len(line))) IN
         IF payload = <<>> THEN 0
         ELSE IF IsJsonString(payload) THEN Len(payload) - 2
         ELSE Len(payload)

RECURSIVE ProcessLines(_, _)
\* The `while True` loop: take every complete line off the buffer and count it.
ProcessLines(buf, count) ==
    LET idx == FindNewline(buf) IN
    IF idx = 0 THEN [buffer |-> buf, char_count |-> count]
    ELSE ProcessLines(SubSeq(buf, idx + 1, Len(buf)),
                      count + LineCount(SubSeq(buf, 1, idx - 1)))

\* The finally block's handling of the unterminated last line.
TailCount(buf) == LineCount(Strip(buf))

YieldMutantDecoded(chunk) == Decode(chunk)

\* `yield chunk`: what the consumer is given for an upstream chunk.
YieldOf(chunk) == chunk

FinallyMutantAfterLoop(exc) == exc = "StopAsyncIteration"

\* try/finally: whether the finally block runs when the try block is left by
\* this exception (the end of the upstream, an error it raised, GeneratorExit
\* thrown in at the yield, CancelledError at the await).
FinallyRuns(exc) == TRUE

DeductionMutantPropagates(exc, result) ==
    IF result \in {"free", "charged"} THEN exc ELSE result

\* `except Exception: pass` around the deduction: what leaves the finally
\* block, given the exception in flight and the deduction's result.
AfterFinally(exc, result) == exc

\* The slot of the consume_points call the generator makes.
StreamCaller == 1
StreamUser == "u1"

\* The consumer asks for the next chunk: the generator starts, or resumes
\* after its yield, and awaits the upstream.
ConsumerNext ==
    /\ gpc \in {"created", "at_yield"}
    /\ gpc' = "await_upstream"
    /\ UNCHANGED <<upstream, upEnd, upos, gwf, buffer, char_count, yielded, pending, seen,
                   fcalls>>
    /\ UNCHANGED <<dbVars, callVars>>
    /\ UNCHANGED notStreamVars

\* The upstream produces its next chunk: decode, count the complete lines, yield.
UpstreamChunk ==
    /\ gpc = "await_upstream"
    /\ upos < Len(upstream)
    /\ LET chunk == upstream[upos + 1]
           decoded == Decode(chunk)
           r == IF decoded # <<>>
                   THEN ProcessLines(buffer \o decoded, char_count)
                   ELSE [buffer |-> buffer, char_count |-> char_count]
       IN /\ buffer' = r.buffer
          /\ char_count' = r.char_count
          /\ yielded' = Append(yielded, YieldOf(chunk))
    /\ upos' = upos + 1
    /\ gpc' = "at_yield"
    /\ UNCHANGED <<upstream, upEnd, gwf, pending, seen, fcalls>>
    /\ UNCHANGED <<dbVars, callVars>>
    /\ UNCHANGED notStreamVars

\* The try block is left with exception exc: the finally block counts the tail
\* and calls PointService.consume_points(..., usage_amount=char_count,
\* allow_negative=True).
EnterFinally(exc) ==
    /\ pending' = exc
    /\ IF FinallyRuns(exc)
          THEN /\ gpc' = "finally"
               /\ char_count' = char_count + TailCount(buffer)
               /\ cargs' = [cargs EXCEPT ![StreamCaller] =
                               [user_uid |-> StreamUser, workflow_id |-> gwf,
                                usage_amount |-> Some(char_count + TailCount(buffer)),
                                allow_negative |-> TRUE]]
               /\ cbal0' = [cbal0 EXCEPT ![StreamCaller] = bal[StreamUser]]
               /\ cpos' = [cpos EXCEPT ![StreamCaller] = "calculate"]
               /\ fcalls' = Append(fcalls,
                                   [user_uid |-> StreamUser, workflow_id |-> gwf,
                                    usage_amount |-> char_count + TailCount(buffer),
                                    allow_negative |-> TRUE])
               /\ UNCHANGED seen
          ELSE /\ gpc' = "closed"
               /\ seen' = exc
               /\ UNCHANGED <<char_count, cargs, cbal0, cpos, fcalls>>
    /\ UNCHANGED <<upstream, upEnd, upos, gwf, buffer, yielded, ctotal, cres, cdebit>>
    /\ UNCHANGED dbVars
    /\ UNCHANGED notStreamVars

\* The upstream is exhausted: the `async for` ends.
UpstreamEnd ==
    /\ gpc = "await_upstream"
    /\ upos = Len(upstream)
    /\ upEnd = "end"
    /\ EnterFinally("StopAsyncIteration")

\* The upstream raises instead of producing a chunk.
UpstreamError ==
    /\ gpc = "await_upstream"
    /\ upos = Len(upstream)
    /\ upEnd = "error"
    /\ EnterFinally("UpstreamError")

\* The consumer stops reading: aclose() throws GeneratorExit in at the yield.
ConsumerClose ==
    /\ gpc = "at_yield"
    /\ EnterFinally("GeneratorExit")

\* The consumer's task is cancelled while the generator awaits the upstream.
ConsumerCancel ==
    /\ gpc = "await_upstream"
    /\ EnterFinally("CancelledError")

\* aclose() on a generator that was never started closes it without running
\* any of its body.
CloseUnstarted ==
    /\ gpc = "created"
    /\ gpc' = "closed"
    /\ seen' = "GeneratorExit"
    /\ UNCHANGED <<upstream, upEnd, upos, gwf, buffer, char_count, yielded, pending,
                   fcalls>>
    /\ UNCHANGED <<dbVars, callVars>>
    /\ UNCHANGED notStreamVars

\* The deduction has returned or raised: the finally block is left.
FinallyExit ==
    /\ gpc = "finally"
    /\ cpos[StreamCaller] \in {"returned", "raised"}
    /\ seen' = AfterFinally(pending, cres[StreamCaller])
    /\ gpc' = "closed"
    /\ UNCHANGED <<upstream, upEnd, upos, gwf, buffer, char_count, yielded, pending,
                   fcalls>>
    /\ UNCHANGED <<dbVars, callVars>>
    /\ UNCHANGED notStreamVars

StreamInit ==
    /\ upstream \in {forward_sse(None, c) : c \in Streams} \cup FailedStreams
    /\ upEnd \in {"end", "error"}
    /\ upos = 0
    /\ gpc = "created"
    /\ gwf \in WorkflowIds
    /\ buffer = <<>>
    /\ char_count = 0
    /\ yielded = <<>>
    /\ pending = None
    /\ seen = None
    /\ fcalls = <<>>

\* No stream.
StreamParked ==
    /\ upstream = <<>>
    /\ upEnd = "end"
    /\ upos = 0
    /\ gpc = "closed"
    /\ gwf = None
    /\ buffer = <<>>
    /\ char_count = 0
    /\ yielded = <<>>
    /\ pending = None
    /\ seen = None
    /\ fcalls = <<>>

\* The tables a stream runs against.
DbInitStream ==
    /\ \E r \in PolicyRows :
          cfgs \in {[w \in WorkflowIds |-> {}], [w \in WorkflowIds |-> {r}]}
    /\ userRows = Uids
    /\ bal = [u \in Uids |-> 1]
    /\ ledger = <<>>

StreamNext ==
    \/ ConsumerNext
    \/ UpstreamChunk
    \/ UpstreamEnd
    \/ UpstreamError
    \/ ConsumerClose
    \/ ConsumerCancel
    \/ CloseUnstarted
    \/ consume_points(StreamCaller)
    \/ FinallyExit

----------------------------------------------------------------------------
(***************************************************************************)
(* Submit and poll: modules/coze/controller.py, modules/coze/router.py     *)
(*                                                                         *)
(* The handlers are coroutines of one event loop: a handler runs from one  *)
(* await to the next without interruption, and the TaskManager calls it    *)
(* makes find the lock free.                                               *)
(***************************************************************************)

\* Outputs of a job: "a" is a character json.dumps writes as it is, "q" one
\* it escapes (a double quote).
JobOutputs == {<<"a">>, <<"q", "a">>}

RECURSIVE EscapedLen(_)
EscapedLen(str) ==
    IF str = <<>> THEN 0
    ELSE (IF Head(str) = "q" THEN 2 ELSE 1) + EscapedLen(Tail(str))

\* len(json.dumps(data, ensure_ascii=False)) for a str: the quotes and the
\* escaped characters.
JsonDumpsLen(str) == 2 + EscapedLen(str)

NoRequest == [user_uid |-> None, task_id |-> None, workflow_id |-> None]

\* A new request is served by the first idle handler (idle handlers are
\* interchangeable: the server takes any one of them).
FirstIdle(h) == hpc[h] = "idle" /\ \A g \in Callers : g < h => hpc[g] # "idle"

\* controller.base_workflow is called (by prompt_generate, copywriting_create):
\* it awaits the POST to the job engine.
SubmitStart(h) ==
    /\ FirstIdle(h)
    /\ nreq < MaxRequests
    /\ \E u \in Uids, wf \in WorkflowIds :
          hreq' = [hreq EXCEPT ![h] = [user_uid |-> u, task_id |-> None,
                                       workflow_id |-> wf]]
    /\ hpc' = [hpc EXCEPT ![h] = "submit_await"]
    /\ hret' = [hret EXCEPT ![h] = None]
    /\ nreq' = nreq + 1
    /\ UNCHANGED <<jobs, jobOut, jobWf, jobUser, delivered, jobEntries, jobDebit>>
    /\ UNCHANGED <<regVars, dbVars, callVars, streamVars>>
    /\ UNCHANGED calcVars

\* The order in which the job engine hands out its execute_ids.
TaskOrder == <<"t1", "t2">>

\* The execute_id of the next job: the first one no job has been given (which
\* of the unused ids a job gets makes no difference to any handler).
IsNextTaskId(tid) ==
    \E i \in 1..Len(TaskOrder) :
        /\ TaskOrder[i] = tid
        /\ jobs[tid] = "none"
        /\ \A j \in 1..(i - 1) : jobs[TaskOrder[j]] # "none"

\* base_workflow after the POST: code 0 carries the execute_id of a new job,
\* which add_task records; any other code is answered with status 500.
SubmitResponse(h) ==
    /\ hpc[h] = "submit_await"
    /\ \/ /\ \E tid \in TaskIds :
                /\ IsNextTaskId(tid)
                /\ jobs' = [jobs EXCEPT ![tid] = "Running"]
                /\ jobWf' = [jobWf EXCEPT ![tid] = hreq[h].workflow_id]
                /\ jobUser' = [jobUser EXCEPT ![tid] = hreq[h].user_uid]
                /\ IF AddCheck(tasks, tid)
                      THEN /\ hret' = [hret EXCEPT ![h] = "ValueError"]
                           /\ UNCHANGED tasks
                      ELSE /\ tasks' = [tasks EXCEPT ![tid] = hreq[h].workflow_id]
                           /\ hret' = [hret EXCEPT ![h] = "started"]
       \/ /\ hret' = [hret EXCEPT ![h] = "500"]
          /\ UNCHANGED <<tasks, jobs, jobWf, jobUser>>
    /\ hpc' = [hpc EXCEPT ![h] = "idle"]
    /\ hreq' = [hreq EXCEPT ![h] = NoRequest]
    /\ UNCHANGED <<jobOut, nreq, delivered, jobEntries, jobDebit>>
    /\ UNCHANGED <<lock, rpc, rop, rtid, rwf, rret, rsnap, rcalls, absTasks, rexp>>
    /\ UNCHANGED <<dbVars, callVars, streamVars>>
    /\ UNCHANGED calcVars

\* The job engine finishes a job.
JobProgress(tid) ==
    /\ jobs[tid] = "Running"
    /\ \/ \E out \in JobOutputs :
             /\ jobs' = [jobs EXCEPT ![tid] = "Success"]
             /\ jobOut' = [jobOut EXCEPT ![tid] = out]
       \/ /\ jobs' = [jobs EXCEPT ![tid] = "Fail"]
          /\ UNCHANGED jobOut
    /\ UNCHANGED <<jobWf, jobUser, hpc, hreq, hret, nreq, delivered, jobEntries, jobDebit>>
    /\ UNCHANGED <<regVars, dbVars, callVars, streamVars>>
    /\ UNCHANGED calcVars

\* router.query_workflow up to the await in controller.query_workflow: both
\* read the registry; a task_id it does not hold is answered with status 400.
PollStart(h) ==
    /\ FirstIdle(h)
    /\ nreq < MaxRequests
    /\ nreq' = nreq + 1
    /\ \E u \in Uids, tid \in TaskIds :
          IF tasks[tid] = None
             THEN /\ hret' = [hret EXCEPT ![h] = "400"]
                  /\ UNCHANGED <<hpc, hreq>>
             ELSE /\ hreq' = [hreq EXCEPT ![h] = [user_uid |-> u, task_id |-> tid,
                                                  workflow_id |-> tasks[tid]]]
                  /\ hpc' = [hpc EXCEPT ![h] = "poll_await"]
                  /\ hret' = [hret EXCEPT ![h] = None]
    /\ UNCHANGED <<jobs, jobOut, jobWf, jobUser, delivered, jobEntries, jobDebit>>
    /\ UNCHANGED <<regVars, dbVars, callVars, streamVars>>
    /\ UNCHANGED calcVars

\* router.query_workflow's choice of the deduction for a success response:
\* the usage it passes, or no deduction (the empty set).
RouterUsage(table, workflow_id, data) ==
    LET cfg == get_point_config_by_workflow_id(table, workflow_id) IN
    IF cfg = {} THEN {}
    ELSE LET r == CHOOSE r \in cfg : TRUE IN
         IF ~(r.is_enable = 1 /\ r.token > 0) THEN {}
         ELSE IF r.measure_unit = MU_CHAR THEN {Some(JsonDumpsLen(data))}
         ELSE IF r.measure_unit = MU_PER_CALL THEN {Some(1)}
         ELSE IF r.measure_unit = MU_PER_MINUTE THEN {Some(0)}
         ELSE {}

StatusBranchMutantRunningAsSuccess(execute_status) ==
    IF execute_status = "Fail" THEN "Fail" ELSE "Success"

StatusBranchMutantFailAsSuccess(execute_status) ==
    IF execute_status = "Running" THEN "else" ELSE "Success"

\* controller.query_workflow's if / elif / else over history["execute_status"]:
\* the branch taken.
StatusBranch(execute_status) ==
    IF execute_status = "Success" THEN "Success"
    ELSE IF execute_status = "Fail" THEN "Fail"
    ELSE "else"

\* controller.query_workflow after the GET, and router.query_workflow up to
\* its consume_points call: code 4200 and a failed job are answered with
\* status 500; a KeyError of delete_task leaves both handlers; a running job
\* is answered with code 1; a succeeded job is deleted from the registry and,
\* when its workflow has an enabled policy with a positive price,
\* consume_points is called for the current user with allow_negative=False.
PollResponse(h) ==
    /\ hpc[h] = "poll_await"
    /\ LET tid == hreq[h].task_id IN
       \/ /\ hret' = [hret EXCEPT ![h] = "500 query failed"]
          /\ hpc' = [hpc EXCEPT ![h] = "idle"]
          /\ hreq' = [hreq EXCEPT ![h] = NoRequest]
          /\ UNCHANGED <<tasks, callVars>>
       \/ /\ StatusBranch(jobs[tid]) = "Fail"
          /\ hret' = [hret EXCEPT ![h] = "500 job failed"]
          /\ hpc' = [hpc EXCEPT ![h] = "idle"]
          /\ hreq' = [hreq EXCEPT ![h] = NoRequest]
          /\ UNCHANGED <<tasks, callVars>>
       \/ /\ StatusBranch(jobs[tid]) = "else"
          /\ hret' = [hret EXCEPT ![h] = "running"]
          /\ hpc' = [hpc EXCEPT ![h] = "idle"]
          /\ hreq' = [hreq EXCEPT ![h] = NoRequest]
          /\ UNCHANGED <<tasks, callVars>>
       \/ /\ StatusBranch(jobs[tid]) = "Success"
          /\ IF DeleteCheck(tasks, tid)
                THEN /\ hret' = [hret EXCEPT ![h] = "KeyError"]
                     /\ hpc' = [hpc EXCEPT ![h] = "idle"]
                     /\ hreq' = [hreq EXCEPT ![h] = NoRequest]
                     /\ UNCHANGED <<tasks, callVars>>
                ELSE /\ tasks' = [tasks EXCEPT ![tid] = None]
                     /\ LET usage == RouterUsage(cfgs, hreq[h].workflow_id, jobOut[tid]) IN
                        IF usage = {}
                           THEN /\ hpc' = [hpc EXCEPT ![h] = "respond"]
                                /\ UNCHANGED callVars
                           ELSE /\ hpc' = [hpc EXCEPT ![h] = "deduct"]
                                /\ cpos' = [cpos EXCEPT ![h] = "calculate"]
                                /\ cargs' = [cargs EXCEPT ![h] =
                                     [user_uid |-> hreq[h].user_uid,
                                      workflow_id |-> hreq[h].workflow_id,
                                      usage_amount |-> CHOOSE x \in usage : TRUE,
                                      allow_negative |-> FALSE]]
                                /\ cbal0' = [cbal0 EXCEPT ![h] = bal[hreq[h].user_uid]]
                                /\ UNCHANGED <<ctotal, cres, cdebit>>
                     /\ UNCHANGED <<hret, hreq>>
    /\ UNCHANGED <<jobs, jobOut, jobWf, jobUser, nreq, delivered, jobEntries, jobDebit>>
    /\ UNCHANGED <<lock, rpc, rop, rtid, rwf, rret, rsnap, rcalls, absTasks, rexp>>
    /\ UNCHANGED <<dbVars, streamVars>>
    /\ UNCHANGED calcVars

\* router.query_workflow returns the success response: whatever consume_points
\* raised is swallowed by `except Exception: pass`.
PollFinish(h) ==
    /\ \/ hpc[h] = "respond"
       \/ hpc[h] = "deduct" /\ cpos[h] \in {"returned", "raised"}
    /\ LET tid == hreq[h].task_id IN
       /\ delivered' = [delivered EXCEPT ![tid] = @ + 1]
       /\ jobEntries' = [jobEntries EXCEPT ![tid] =
                            @ + (IF cres[h] = "charged" THEN 1 ELSE 0)]
       /\ jobDebit' = [jobDebit EXCEPT ![tid] = @ + cdebit[h]]
    /\ hret' = [hret EXCEPT ![h] = "success"]
    /\ hpc' = [hpc EXCEPT ![h] = "idle"]
    /\ hreq' = [hreq EXCEPT ![h] = NoRequest]
    /\ cpos' = [cpos EXCEPT ![h] = "idle"]
    /\ cargs' = [cargs EXCEPT ![h] = NoArgs]
    /\ ctotal' = [ctotal EXCEPT ![h] = 0]
    /\ cres' = [cres EXCEPT ![h] = None]
    /\ cbal0' = [cbal0 EXCEPT ![h] = 0]
    /\ cdebit' = [cdebit EXCEPT ![h] = 0]
    /\ UNCHANGED <<jobs, jobOut, jobWf, jobUser, nreq>>
    /\ UNCHANGED <<regVars, dbVars, streamVars>>
    /\ UNCHANGED calcVars

PollInit ==
    /\ jobs = [k \in TaskIds |-> "none"]
    /\ jobOut = [k \in TaskIds |-> <<>>]
    /\ jobWf = [k \in TaskIds |-> None]
    /\ jobUser = [k \in TaskIds |-> None]
    /\ hpc = [h \in Callers |-> "idle"]
    /\ hreq = [h \in Callers |-> NoRequest]
    /\ hret = [h \in Callers |-> None]
    /\ nreq = 0
    /\ delivered = [k \in TaskIds |-> 0]
    /\ jobEntries = [k \in TaskIds |-> 0]
    /\ jobDebit = [k \in TaskIds |-> 0]

\* The tables the handlers run against: the users hold a positive balance, as
\* the pre-flight check of a billable workflow requires of a submitter; it
\* covers the cost of a PER_CALL or PER_MINUTE job and not that of a
\* PER_CHARACTER one.
DbInitPoll ==
    /\ \E r \in PolicyRows :
          cfgs \in {[w \in WorkflowIds |-> {}], [w \in WorkflowIds |-> {r}]}
    /\ userRows = Uids
    /\ bal = [u \in Uids |-> 1]
    /\ ledger = <<>>

PollNext ==
    \/ \E h \in Callers :
          \/ SubmitStart(h)
          \/ SubmitResponse(h)
          \/ PollStart(h)
          \/ PollResponse(h)
          \/ consume_points(h)
          \/ PollFinish(h)
    \/ \E tid \in TaskIds : JobProgress(tid)

DeductNext ==
    \E p \in Callers :
        \/ ConsumeCall(p)
        \/ consume_points(p)

\* One caller at a time, passing any usage amount.
DeductSignedNext ==
    \/ ConsumeCallSigned(StreamCaller)
    \/ consume_points(StreamCaller)

----------------------------------------------------------------------------
(***************************************************************************)
(* Pre-flight check: utils/point_service.py, modules/coze/router.py        *)
(***************************************************************************)

\* class User: the mapped columns, which are the attributes of the object
\* get_current_user returns.
UserColumns ==
    {"id", "uid", "username", "email", "password_hash", "phone", "is_del",
     "created_time", "updated_time", "last_login_time"}

\* PointService.check_non_streaming_workflow_points(db, current_user,
\* workflow_id): "ok" when it returns, else what it raises. `cfg and (...)`
\* reads current_user.point only when there is an enabled policy.
check_non_streaming_workflow_points(table, points, uid, workflow_id) ==
    LET cfg == get_point_config_by_workflow_id(table, workflow_id) IN
    IF cfg = {} THEN "ok"
    ELSE IF "point" \notin UserColumns THEN "AttributeError"
    ELSE IF points[uid] <= 0 THEN "HTTP400"
    ELSE "ok"

\* PointService.check_streaming_workflow_points: the same rule.
check_streaming_workflow_points(table, points, uid, workflow_id) ==
    LET cfg == get_point_config_by_workflow_id(table, workflow_id) IN
    IF cfg = {} THEN "ok"
    ELSE IF "point" \notin UserColumns THEN "AttributeError"
    ELSE IF points[uid] <= 0 THEN "HTTP400"
    ELSE "ok"

PreflightMutantIgnored(result) == FALSE

\* The check is a statement of its own before the handler starts the work: an
\* exception it raises leaves the handler there.
PreflightBlocks(result) == result # "ok"

\* router.prompt_generate up to the await in controller.base_workflow: the
\* pre-flight check, then the POST to the job engine.
RouterSubmit(h) ==
    /\ FirstIdle(h)
    /\ nreq < MaxRequests
    /\ nreq' = nreq + 1
    /\ \E u \in Uids, wf \in WorkflowIds :
          LET r == check_non_streaming_workflow_points(cfgs, bal, u, wf) IN
          /\ hreq' = [hreq EXCEPT ![h] = [user_uid |-> u, task_id |-> None,
                                          workflow_id |-> wf]]
          /\ IF PreflightBlocks(r)
                THEN /\ hret' = [hret EXCEPT ![h] = r]
                     /\ UNCHANGED hpc
                ELSE /\ hpc' = [hpc EXCEPT ![h] = "submit_await"]
                     /\ hret' = [hret EXCEPT ![h] = None]
    /\ UNCHANGED <<jobs, jobOut, jobWf, jobUser, delivered, jobEntries, jobDebit>>
    /\ UNCHANGED <<regVars, dbVars, callVars, streamVars>>
    /\ UNCHANGED calcVars

\* router.copywriting_create (and the other streaming endpoints): the
\* pre-flight check, then forward_sse and wrap_sse_with_point_deduction make
\* the generator the StreamingResponse is given; neither generator has run
\* yet, so the upstream has produced nothing.
RouterStream(h) ==
    /\ FirstIdle(h)
    /\ nreq < MaxRequests
    /\ nreq' = nreq + 1
    /\ StreamParked
    /\ \E wf \in WorkflowIds :
          LET r == check_streaming_workflow_points(cfgs, bal, StreamUser, wf) IN
          /\ hreq' = [hreq EXCEPT ![h] = [user_uid |-> StreamUser, task_id |-> None,
                                          workflow_id |-> wf]]
          /\ IF PreflightBlocks(r)
                THEN /\ hret' = [hret EXCEPT ![h] = r]
                     /\ UNCHANGED streamVars
                ELSE /\ hret' = [hret EXCEPT ![h] = "streaming"]
                     /\ gpc' = "created"
                     /\ gwf' = wf
                     /\ UNCHANGED <<upstream, upEnd, upos, buffer, char_count, yielded,
                                    pending, seen, fcalls>>
    /\ UNCHANGED <<hpc, jobs, jobOut, jobWf, jobUser, delivered, jobEntries, jobDebit>>
    /\ UNCHANGED <<regVars, dbVars, callVars>>
    /\ UNCHANGED calcVars

\* The tables the endpoints run against: balances below, at and above zero.
DbInitPreflight ==
    /\ \E r \in PolicyRows :
          cfgs \in {[w \in WorkflowIds |-> {}], [w \in WorkflowIds |-> {r}]}
    /\ userRows = Uids
    /\ \E b \in -1..MaxBalance : bal = [u \in Uids |-> b]
    /\ ledger = <<>>

PreflightNext ==
    \E h \in Callers :
        \/ RouterSubmit(h)
        \/ SubmitResponse(h)
        \/ RouterStream(h)

----------------------------------------------------------------------------
(***************************************************************************)
(* The Cost Calculator called on its own                                   *)
(***************************************************************************)

\* Tokens, in tenths of a quantum: negative, zero, half a quantum, 1.4 and 1.5
\* quanta, and whole quanta (1, 3, 5, 10).
CalcTokens == {-10, 0, 5, 14, 15, 10, 30, 50, 100}

\* measure_unit values: those of MeasureUnit and one that is none of them.
CalcMeasureUnits == {MU_NONE, MU_CHAR, MU_PER_CALL, MU_PER_MINUTE, 4}

CalcUnits == {-1, 0, 1, 2, 100}

\* Integer usages: below, at and above zero, and around the boundaries of a
\* minute and of a batch of 100.
CalcIntUsages == {-61, -1, 0, 1, 2, 3, 60, 61, 100, 101, 121}

CalcUsages == {Absent, Malformed} \cup {Some(n) : n \in CalcIntUsages}

NotCalled == [done |-> FALSE, raised |-> None, total |-> 0]

\* calculate_consumption is called with the arguments and returns or raises.
CalcApply ==
    /\ ~calcRes.done
    /\ calcRes' =
          IF calculate_consumption_raises(calcArgs.token, calcArgs.measure_unit,
                                          calcArgs.usage_amount)
             THEN [done |-> TRUE, raised |-> "ValueError", total |-> 0]
             ELSE [done |-> TRUE, raised |-> None,
                   total |-> calculate_consumption(calcArgs.token, calcArgs.measure_unit,
                                                   calcArgs.unit, calcArgs.usage_amount)]
    /\ UNCHANGED calcArgs
    /\ UNCHANGED <<regVars, dbVars, callVars, streamVars, pollVars>>

CalcInit ==
    /\ calcArgs \in [token : CalcTokens, measure_unit : CalcMeasureUnits,
                      unit : CalcUnits, usage_amount : CalcUsages]
    /\ calcRes = NotCalled

\* No call of the calculator on its own.
CalcParked ==
    /\ calcArgs = [token |-> 0, measure_unit |-> MU_NONE, unit |-> 1,
                   usage_amount |-> Absent]
    /\ calcRes = NotCalled

CalcNext == CalcApply

----------------------------------------------------------------------------
(***************************************************************************)
(* Specifications                                                          *)
(***************************************************************************)

\* Threads calling the Task Registry.
InitRegistry ==
    RegistryInit /\ DbParked /\ CallInit /\ StreamParked /\ PollInit /\ CalcParked

SpecRegistry == InitRegistry /\ [][RegistryNext]_vars

\* Callers of PointService.consume_points sharing the database.
InitDeduct ==
    RegistryInit /\ DbInit /\ CallInit /\ StreamParked /\ PollInit /\ CalcParked

SpecDeduct == InitDeduct /\ [][DeductNext]_vars

\* A single caller of PointService.consume_points, negative usage included.
SpecDeductSigned == InitDeduct /\ [][DeductSignedNext]_vars

\* One metered stream, its upstream and its consumer.
InitStream ==
    RegistryInit /\ DbInitStream /\ CallInit /\ StreamInit /\ PollInit /\ CalcParked

SpecStream == InitStream /\ [][StreamNext]_vars

\* Submit and poll requests served by one process.
InitPoll ==
    RegistryInit /\ DbInitPoll /\ CallInit /\ StreamParked /\ PollInit /\ CalcParked

SpecPoll == InitPoll /\ [][PollNext]_vars

\* The endpoints that start work, behind their pre-flight check.
InitPreflight ==
    RegistryInit /\ DbInitPreflight /\ CallInit /\ StreamParked /\ PollInit /\ CalcParked

SpecPreflight == InitPreflight /\ [][PreflightNext]_vars

\* One call of the Cost Calculator, for every argument of the sets above.
InitCalc ==
    RegistryInit /\ DbParked /\ CallInit /\ StreamParked /\ PollInit /\ CalcInit

SpecCalc == InitCalc /\ [][CalcNext]_vars

----------------------------------------------------------------------------
(***************************************************************************)
(* Task Registry claims                                                    *)
(***************************************************************************)

\* A call whose body has run and which has not yet left the lock.
BodyDone(t, op) == rpc[t] = "release" /\ rop[t] = op

\* C8: add_task on a task_id already present raises the duplicate-task error
\* (ValueError) and leaves the registry as it was, the stored workflow_id
\* included; on an absent task_id it stores that one entry and changes no other.
C8_AddDuplicateRejected ==
    \A t \in Threads :
        BodyDone(t, "add") =>
            IF rsnap[t][rtid[t]] # None
                THEN rret[t] = "ValueError" /\ tasks = rsnap[t]
                ELSE /\ rret[t] = "ok"
                     /\ tasks = [rsnap[t] EXCEPT ![rtid[t]] = rwf[t]]

\* A duplicate add with a different workflow_id has been rejected.
C8_Witness ==
    \E t \in Threads :
        /\ BodyDone(t, "add")
        /\ rsnap[t][rtid[t]] # None
        /\ rsnap[t][rtid[t]] # rwf[t]
        /\ rret[t] = "ValueError"

\* C9: delete_task on an absent task_id raises the task-not-found error
\* (KeyError) and leaves the registry unchanged; on a present task_id it
\* removes exactly that entry and no other.
C9_DeleteAbsentRejected ==
    \A t \in Threads :
        BodyDone(t, "delete") =>
            IF rsnap[t][rtid[t]] = None
                THEN rret[t] = "KeyError" /\ tasks = rsnap[t]
                ELSE /\ rret[t] = "ok"
                     /\ tasks = [rsnap[t] EXCEPT ![rtid[t]] = None]

\* A delete of an absent task_id has been rejected while another entry is stored.
C9_Witness ==
    \E t \in Threads :
        /\ BodyDone(t, "delete")
        /\ rsnap[t][rtid[t]] = None
        /\ rret[t] = "KeyError"
        /\ \E k \in TaskIds : tasks[k] # None

\* C10: the registry's calls are atomic with respect to each other: every
\* call returns what the sequential registry returns when the calls are
\* taken in the order of their lock entries, and whenever no call is inside
\* the lock the registry is the sequential registry; so of two concurrent
\* adds (or deletes) of one task_id exactly one succeeds.
C10_RegistryLinearizable ==
    /\ \A t \in Threads : rpc[t] \in {"release", "done"} => rret[t] = rexp[t]
    /\ lock = 0 => tasks = absTasks
    /\ \A t \in Threads : rpc[t] \in {"body", "store", "del", "release"} => lock = t

\* Two adds of the same task_id overlap: one has stored and still holds the
\* lock, the other waits for it.
C10_Witness ==
    \E t1, t2 \in Threads :
        /\ t1 # t2
        /\ BodyDone(t1, "add") /\ rret[t1] = "ok"
        /\ rpc[t2] = "acquire" /\ rop[t2] = "add" /\ rtid[t2] = rtid[t1]

----------------------------------------------------------------------------
(***************************************************************************)
(* Billing Service claims                                                  *)
(***************************************************************************)

\* The cost the Cost Calculator gives the workflow's enabled policy for a usage
\* (0 without one): the "computed cost" of a deduct call.
PolicyCost(table, workflow_id, usage_amount) ==
    LET cfg == get_point_config_by_workflow_id(table, workflow_id) IN
    IF cfg = {} THEN 0
    ELSE LET r == CHOOSE r \in cfg : TRUE IN
         calculate_consumption(FromNumeric(r.token), r.measure_unit, r.unit,
                               usage_amount)

CallCost(p) == PolicyCost(cfgs, cargs[p].workflow_id, cargs[p].usage_amount)

CallOver(p) == cpos[p] \in {"returned", "raised"}

\* The call of p is the only one made so far.
CallAlone(p) == \A q \in Callers \ {p} : cpos[q] = "idle"

LedgerOf(uid) == SelectSeq(ledger, LAMBDA e : e.from_user_uid = uid)

\* C2: N concurrent deduct calls of cost c > 0 for one user with
\* allow_negative = false, started against a balance of (N-1)*c, end with
\* exactly N-1 successes, exactly one insufficient-balance failure and a
\* final balance of 0; the balance is never negative.
C2_ConcurrentDeducts ==
    /\ \A u \in Uids : bal[u] >= 0
    /\ \A u \in Uids, w \in WorkflowIds, x \in Usages :
          LET c == PolicyCost(cfgs, w, x) IN
          ( /\ c > 0
            /\ \A p \in Callers :
                  /\ CallOver(p)
                  /\ cargs[p] = [user_uid |-> u, workflow_id |-> w,
                                 usage_amount |-> x, allow_negative |-> FALSE]
                  /\ cbal0[p] = (NumCallers - 1) * c )
          => /\ Cardinality({p \in Callers : cres[p] = "charged"}) = NumCallers - 1
             /\ Cardinality({p \in Callers : cres[p] = "ValueError"}) = 1
             /\ bal[u] = 0

\* C3: a deduct call with allow_negative = false whose computed cost exceeds
\* the user's balance fails with the insufficient-balance error (ValueError),
\* leaves the balance unchanged and appends no LedgerEntry.
C3_InsufficientRejected ==
    \A p \in Callers :
        ( /\ CallOver(p) /\ CallAlone(p)
          /\ ~cargs[p].allow_negative
          /\ CallCost(p) > cbal0[p] )
        => /\ cres[p] = "ValueError"
           /\ bal[cargs[p].user_uid] = cbal0[p]
           /\ ledger = <<>>

\* C4: a deduct call with allow_negative = true and a positive computed cost
\* always succeeds: the balance decreases by exactly the cost, below zero when
\* the cost exceeds it, and exactly one LedgerEntry of that cost is appended.
C4_NegativeAllowedCharges ==
    \A p \in Callers :
        ( /\ CallOver(p) /\ CallAlone(p)
          /\ cargs[p].allow_negative
          /\ CallCost(p) > 0 )
        => /\ cres[p] = "charged"
           /\ bal[cargs[p].user_uid] = cbal0[p] - CallCost(p)
           /\ Len(LedgerOf(cargs[p].user_uid)) = 1
           /\ \A i \in 1..Len(ledger) : ledger[i].point = CallCost(p)

\* The workflow has no enabled policy: no row, or a disabled one.
NoEnabledPolicy(workflow_id) ==
    \A r \in cfgs[workflow_id] : r.is_enable # 1

\* C11: when the workflow has no policy, or a disabled one, consume_points
\* returns the free result (cost 0) without calling update_user_point or
\* create_point_record: balances and ledger are left as they were, for every
\* usage and either value of allow_negative.
C11_FreeWithoutPolicy ==
    [][\A p \in Callers :
          (cpos[p] = "calculate" /\ NoEnabledPolicy(cargs[p].workflow_id)
           /\ consume_points(p))
          => /\ cpos'[p] = "returned"
             /\ cres'[p] = "free"
             /\ ctotal'[p] = 0
             /\ UNCHANGED <<bal, ledger, userRows, cfgs>>]_vars

\* A call with a usage of 3 and allow_negative = true for a workflow whose only
\* policy is disabled has returned the free result.
C11_Witness ==
    \E p \in Callers :
        /\ cpos[p] = "returned" /\ cres[p] = "free"
        /\ cargs[p].allow_negative /\ cargs[p].usage_amount = Some(3)
        /\ cfgs[cargs[p].workflow_id] # {}
        /\ NoEnabledPolicy(cargs[p].workflow_id)
        /\ ledger = <<>> /\ bal[cargs[p].user_uid] = cbal0[p]

\* C21: when the workflow has an enabled policy and the computed cost of the
\* usage is 0 (PER_CHARACTER with usage 0), consume_points returns the free
\* result, leaves the balance as it was and appends no LedgerEntry.
C21_ZeroCostFree ==
    \A p \in Callers :
        ( /\ CallOver(p) /\ CallAlone(p)
          /\ ~NoEnabledPolicy(cargs[p].workflow_id)
          /\ CallCost(p) = 0 )
        => /\ cres[p] = "free"
           /\ bal[cargs[p].user_uid] = cbal0[p]
           /\ ledger = <<>>

\* C28: a deduct call never increases a user's balance and never appends a
\* LedgerEntry of a zero or negative amount, for every policy and every usage,
\* negative ones included; a negative computed cost (PER_CALL with a negative
\* call count) is treated as free: the call returns the free result and
\* writes nothing.
C28_NegativeCostIsFree ==
    /\ \A i \in 1..Len(ledger) : ledger[i].point > 0
    /\ \A p \in Callers :
          (cpos[p] # "idle" /\ CallAlone(p)) => bal[cargs[p].user_uid] <= cbal0[p]
    /\ \A p \in Callers :
          (CallOver(p) /\ CallAlone(p) /\ CallCost(p) < 0)
          => /\ cres[p] = "free"
             /\ bal[cargs[p].user_uid] = cbal0[p]
             /\ ledger = <<>>

RECURSIVE SumPoints(_)
\* The sum of the points of a sequence of ledger rows.
SumPoints(rows) ==
    IF rows = <<>> THEN 0 ELSE Head(rows).point + SumPoints(Tail(rows))

RECURSIVE SumDebits(_, _)
\* What the calls of the callers in S have taken from the balance of uid.
SumDebits(S, uid) ==
    IF S = {} THEN 0
    ELSE LET p == CHOOSE p \in S : TRUE IN
         (IF cargs[p].user_uid = uid THEN cdebit[p] ELSE 0) + SumDebits(S \ {p}, uid)

\* C26: balance and ledger agree: for every user, what the deduct calls have
\* taken from the balance is the sum of the user's LedgerEntries, once every
\* call is over; an entry is appended only by a call that has taken its amount
\* from the balance, and a call that has taken an amount appends its entry.
C26_BalanceMatchesLedger ==
    /\ \A u \in Uids : SumPoints(LedgerOf(u)) <= SumDebits(Callers, u)
    /\ (\A p \in Callers : cpos[p] = "idle" \/ CallOver(p))
          => \A u \in Uids : SumPoints(LedgerOf(u)) = SumDebits(Callers, u)

----------------------------------------------------------------------------
(***************************************************************************)
(* Cost Calculator claims                                                  *)
(***************************************************************************)

\* The call has been made and returned.
CalcReturned == calcRes.done /\ calcRes.raised = None

\* The usage argument is an integer.
IntUsage == calcArgs.usage_amount.some /\ ~calcArgs.usage_amount.text

AbsVal(x) == IF x >= 0 THEN x ELSE -x

\* ceil(a / b) for b >= 1: the least integer k with k * b >= a.
LeastMultiple(a, b) ==
    CHOOSE k \in -(AbsVal(a) + 1)..(AbsVal(a) + 1) : k * b >= a /\ (k - 1) * b < a

\* total quanta are the price (tenths of a quantum) times the batches, rounded
\* half-up to a whole quantum: the nearest quantum, a tie going away from zero.
RoundedProduct(total, token, batches) ==
    LET exact == token * batches
        got == total * TenthsPerQuantum
    IN /\ 2 * AbsVal(got - exact) <= TenthsPerQuantum
       /\ 2 * AbsVal(got - exact) = TenthsPerQuantum => AbsVal(got) > AbsVal(exact)

\* total is unit_price * batches: exactly so for a price of whole quanta, and
\* the rounded product for a price with a seventh fractional digit.
CostIs(total, token, batches) ==
    /\ RoundedProduct(total, token, batches)
    /\ token % TenthsPerQuantum = 0 => total * TenthsPerQuantum = token * batches

\* C14: for PER_CHARACTER with unit_price > 0, every integer usage and
\* batch_size >= 1, the cost is 0 when usage <= 0 and otherwise
\* unit_price * ceil(usage / batch_size).
C14_PerCharacterCost ==
    ( /\ calcRes.done
      /\ calcArgs.measure_unit = MU_CHAR /\ calcArgs.token > 0
      /\ IntUsage /\ calcArgs.unit >= 1 )
    => /\ calcRes.raised = None
       /\ IF calcArgs.usage_amount.v <= 0
             THEN calcRes.total = 0
             ELSE CostIs(calcRes.total, calcArgs.token,
                         LeastMultiple(calcArgs.usage_amount.v, calcArgs.unit))

\* batch_size 100, unit_price 10, usage 101: the cost is 20.
C14_Witness ==
    /\ CalcReturned
    /\ calcArgs = [token |-> FromNumeric(10), measure_unit |-> MU_CHAR, unit |-> 100,
                   usage_amount |-> Some(101)]
    /\ calcRes.total = 20

\* C15: for PER_CALL with unit_price > 0 the call count is 1 when usage is
\* absent and otherwise the given usage, for every integer, 0 included; the
\* cost is unit_price * ceil(call_count / batch_size).
C15_PerCallCost ==
    ( /\ calcRes.done
      /\ calcArgs.measure_unit = MU_PER_CALL /\ calcArgs.token > 0
      /\ ~calcArgs.usage_amount.text /\ calcArgs.unit >= 1 )
    => /\ calcRes.raised = None
       /\ LET call_count == IF calcArgs.usage_amount.some
                                THEN calcArgs.usage_amount.v ELSE 1
          IN CostIs(calcRes.total, calcArgs.token,
                    LeastMultiple(call_count, calcArgs.unit))

\* C16: for PER_MINUTE with unit_price > 0 and every integer number of
\* seconds, minutes = max(1, ceil(seconds / 60)) when seconds > 0 and 1
\* otherwise, and the cost is unit_price * ceil(minutes / batch_size).
C16_PerMinuteCost ==
    ( /\ calcRes.done
      /\ calcArgs.measure_unit = MU_PER_MINUTE /\ calcArgs.token > 0
      /\ IntUsage /\ calcArgs.unit >= 1 )
    => /\ calcRes.raised = None
       /\ LET seconds == calcArgs.usage_amount.v
              whole == LeastMultiple(seconds, SecondsPerMinute)
              minutes == IF seconds > 0 THEN (IF whole >= 1 THEN whole ELSE 1) ELSE 1
          IN CostIs(calcRes.total, calcArgs.token,
                    LeastMultiple(minutes, calcArgs.unit))

\* batch_size 1, unit_price 3, 61 seconds: the cost is 6.
C16_Witness ==
    /\ CalcReturned
    /\ calcArgs = [token |-> FromNumeric(3), measure_unit |-> MU_PER_MINUTE, unit |-> 1,
                   usage_amount |-> Some(61)]
    /\ calcRes.total = 6

\* C17: for every fixed policy (unit_price, metering_unit, batch_size) the
\* cost is non-decreasing in the usage: u1 <= u2 implies cost(u1) <= cost(u2).
C17_CostMonotone ==
    \A u1, u2 \in CalcIntUsages :
        u1 <= u2 =>
            calculate_consumption(calcArgs.token, calcArgs.measure_unit, calcArgs.unit,
                                  Some(u1))
            <= calculate_consumption(calcArgs.token, calcArgs.measure_unit,
                                     calcArgs.unit, Some(u2))

\* A PER_CALL policy was applied to a usage of 0, where the cost is that of
\* one call, and its cost goes from below zero to above it over the usages.
C17_Witness ==
    /\ CalcReturned
    /\ calcArgs.measure_unit = MU_PER_CALL /\ calcArgs.token > 0
    /\ calcArgs.usage_amount = Some(0)
    /\ calcRes.total > 0
    /\ calculate_consumption(calcArgs.token, calcArgs.measure_unit, calcArgs.unit,
                             Some(-1)) < 0
    /\ calculate_consumption(calcArgs.token, calcArgs.measure_unit, calcArgs.unit,
                             Some(1)) = calcRes.total

\* C18: the cost is 0 whenever the metering unit is NONE or unit_price <= 0,
\* for every usage and batch size; and a batch_size <= 0 gives the cost of
\* batch_size 1.
C18_FreeAndUnitNormalized ==
    calcRes.done =>
        /\ (calcArgs.measure_unit = MU_NONE \/ calcArgs.token <= 0)
               => calcRes.raised = None /\ calcRes.total = 0
        /\ (calcArgs.unit <= 0 /\ calcRes.raised = None)
               => calcRes.total =
                     calculate_consumption(calcArgs.token, calcArgs.measure_unit, 1,
                                           calcArgs.usage_amount)

\* A batch_size of -1 was given with a positive price and 101 characters, and
\* the cost is that of 101 batches of one.
C18_Witness ==
    /\ CalcReturned
    /\ calcArgs = [token |-> FromNumeric(1), measure_unit |-> MU_CHAR, unit |-> -1,
                   usage_amount |-> Some(101)]
    /\ calcRes.total = 101

\* C19: the calculator is total and fails open: for every input, a missing or
\* malformed usage under every metering unit included, it returns without
\* raising, and a missing or malformed usage gives cost 0.
C19_TotalAndFailsOpen ==
    calcRes.done =>
        /\ calcRes.raised = None
        /\ (~calcArgs.usage_amount.some \/ calcArgs.usage_amount.text)
               => calcRes.total = 0

\* The batches the code multiplies the price by, where the usage is one
\* C14..C16 agree with the code on.
BatchesOf(measure_unit, unit, usage_amount) ==
    LET u == IF unit >= 1 THEN unit ELSE 1
        n == IF usage_amount.some THEN usage_amount.v ELSE 0
        whole == LeastMultiple(n, SecondsPerMinute)
    IN IF measure_unit = MU_PER_CALL
          THEN LeastMultiple(IF usage_amount.some THEN n ELSE 1, u)
       ELSE IF measure_unit = MU_CHAR
          THEN LeastMultiple(n, u)
       ELSE LeastMultiple(IF n > 0 /\ whole >= 1 THEN whole ELSE 1, u)

\* C20: every cost returned is quantized to 6 fractional digits, round-half-up:
\* it is unit_price * batches rounded half-up to a whole quantum, the rounding
\* applied to the product and not to the price.
C20_QuantizedHalfUp ==
    CalcReturned =>
        /\ \E b \in -200..200 : RoundedProduct(calcRes.total, calcArgs.token, b)
        /\ ( /\ calcArgs.token > 0
             /\ \/ calcArgs.measure_unit = MU_CHAR /\ IntUsage
                      /\ calcArgs.usage_amount.v > 0
                \/ calcArgs.measure_unit = MU_PER_MINUTE /\ IntUsage
                \/ calcArgs.measure_unit = MU_PER_CALL
                      /\ calcArgs.usage_amount # Some(0) )
          => RoundedProduct(calcRes.total, calcArgs.token,
                            BatchesOf(calcArgs.measure_unit, calcArgs.unit,
                                      calcArgs.usage_amount))

\* A price of half a quantum was charged for three batches: the product, one
\* and a half quanta, is rounded up to 2 (the rounded price times 3 would be 3).
C20_Witness ==
    /\ CalcReturned
    /\ calcArgs = [token |-> 5, measure_unit |-> MU_PER_CALL, unit |-> 1,
                   usage_amount |-> Some(3)]
    /\ calcRes.total = 2

----------------------------------------------------------------------------
(***************************************************************************)
(* Pre-flight claims                                                       *)
(***************************************************************************)

\* An enabled policy exists for the workflow.
EnabledPolicy(workflow_id) ==
    get_point_config_by_workflow_id(cfgs, workflow_id) # {}

\* The handler's request has been through its pre-flight check and passed:
\* the POST of the job is in flight, or the stream has been handed over.
PreflightPassed(h) ==
    hreq[h] # NoRequest /\ (hpc[h] = "submit_await" \/ hret[h] = "streaming")

\* What a pre-flight check can raise: the insufficient-balance rejection
\* (HTTPException 400) or an error of the check itself.
PreflightErrors == {"HTTP400", "AttributeError"}

\* The handler's request ended at its pre-flight check.
PreflightRejected(h) ==
    hreq[h] # NoRequest /\ hpc[h] = "idle" /\ hret[h] \in PreflightErrors

\* C12: the pre-flight check fails with the insufficient-balance rejection if
\* and only if an enabled policy exists for the workflow and the user's
\* balance is <= 0; with no policy, or a disabled one, it succeeds for every
\* balance, zero and negative included.
C12_PreflightRejectsIffShort ==
    \A h \in Callers :
        hreq[h] # NoRequest =>
            IF EnabledPolicy(hreq[h].workflow_id) /\ bal[hreq[h].user_uid] <= 0
                THEN hpc[h] = "idle" /\ hret[h] = "HTTP400"
                ELSE PreflightPassed(h)

\* C13: when the pre-flight check rejects a request the operation does not
\* start: the handler ends there with the check's exception, no job is
\* submitted, no stream is opened, no registry entry is made, balances and
\* ledger stay as they were; so a POST in flight and an opened stream always
\* belong to a request whose check returned.
C13_RejectedNeverStarts ==
    /\ [](\A h \in Callers :
              hpc[h] = "submit_await" =>
                  check_non_streaming_workflow_points(
                      cfgs, bal, hreq[h].user_uid, hreq[h].workflow_id) = "ok")
    /\ [](gpc = "created" =>
              check_streaming_workflow_points(cfgs, bal, StreamUser, gwf) = "ok")
    /\ [][\A h \in Callers :
              ( \/ /\ RouterSubmit(h)
                   /\ check_non_streaming_workflow_points(
                          cfgs, bal, hreq'[h].user_uid, hreq'[h].workflow_id) # "ok"
                \/ /\ RouterStream(h)
                   /\ check_streaming_workflow_points(
                          cfgs, bal, hreq'[h].user_uid, hreq'[h].workflow_id) # "ok" )
              => /\ hpc'[h] = "idle"
                 /\ hret'[h] \in PreflightErrors
                 /\ UNCHANGED <<jobs, jobOut, jobWf, jobUser, tasks, streamVars, dbVars,
                                callVars>>]_vars

\* A request for a workflow with an enabled policy has been turned away by
\* its pre-flight check and nothing has been started: no job, no registry
\* entry, no stream, no ledger row.
C13_Witness ==
    \E h \in Callers :
        /\ PreflightRejected(h)
        /\ EnabledPolicy(hreq[h].workflow_id)
        /\ \A k \in TaskIds : jobs[k] = "none" /\ tasks[k] = None
        /\ \A g \in Callers : hpc[g] = "idle"
        /\ StreamParked
        /\ ledger = <<>>

----------------------------------------------------------------------------
(***************************************************************************)
(* Streaming Meter claims                                                  *)
(***************************************************************************)

RECURSIVE Flatten(_)
\* The concatenation of a sequence of chunks.
Flatten(chunks) ==
    IF chunks = <<>> THEN <<>> ELSE Head(chunks) \o Flatten(Tail(chunks))

\* The generator's body was entered and has been left.
BodyLeft == pending # None

\* C5: the chunks yielded by the Streaming Meter are a prefix of the upstream's
\* chunks, each forwarded unmodified and in order, none added, dropped or
\* repeated; when the upstream ends naturally and the consumer has read to the
\* end, the yielded bytes are the upstream's bytes.
C5_YieldedIsPrefix ==
    /\ Len(yielded) <= Len(upstream)
    /\ \A i \in 1..Len(yielded) : yielded[i] = upstream[i]
    /\ Len(yielded) = upos
    /\ pending = "StopAsyncIteration" => Flatten(yielded) = Flatten(upstream)

\* A stream of two chunks that splits a two-byte character between them has
\* been read to its natural end.
C5_Witness ==
    /\ gpc = "closed"
    /\ seen = "StopAsyncIteration"
    /\ Len(upstream) = 2
    /\ upstream[1] # <<>> /\ upstream[1][Len(upstream[1])] = "H"
    /\ upstream[2] # <<>> /\ Head(upstream[2]) = "T"
    /\ yielded = upstream

\* C6 as stated: however a metered stream terminates, its finalizer has run
\* exactly once and made exactly one consume_points call, with the
\* accumulated count and allow_negative = true.
C6_FinalizerExactlyOnce ==
    /\ Len(fcalls) <= 1
    /\ gpc = "closed" =>
          /\ Len(fcalls) = 1
          /\ fcalls[1].allow_negative
          /\ fcalls[1].usage_amount = char_count

\* C6, amended: a metered stream from which the consumer has asked for at
\* least one chunk runs its finalizer exactly once however it terminates
\* (end of the upstream, upstream error, the consumer closing or being
\* cancelled), with exactly one consume_points call for the stream's user and
\* workflow, the accumulated count and allow_negative = true; a stream closed
\* before its first chunk was asked for runs no finalizer and makes no call.
C6_FinalizerOnceWhenStarted ==
    /\ Len(fcalls) <= 1
    /\ (gpc = "closed" /\ BodyLeft) =>
          /\ Len(fcalls) = 1
          /\ fcalls[1] = [user_uid |-> StreamUser, workflow_id |-> gwf,
                          usage_amount |-> char_count, allow_negative |-> TRUE]
    /\ (gpc = "closed" /\ ~BodyLeft) => fcalls = <<>>
    /\ gpc \in {"created", "await_upstream", "at_yield"} => fcalls = <<>>
    /\ cpos[StreamCaller] # "idle" => cargs[StreamCaller].allow_negative

\* The consumer stopped reading before the upstream was exhausted, and the
\* finalizer has made its one call.
C6_Witness ==
    /\ gpc = "closed"
    /\ pending = "GeneratorExit"
    /\ upos < Len(upstream)
    /\ Len(fcalls) = 1
    /\ fcalls[1].usage_amount > 0

DeductionErrors == {"AttributeError", "TypeError", "ValueError"}

\* C7: a failure of the deduction inside the finalizer is never raised to the
\* consumer: the stream ends for the consumer the way the try block was left
\* (a natural end stays a natural end) and the chunks delivered are those
\* yielded before, whether the deduction returned or raised.
C7_DeductionFailureSwallowed ==
    (gpc = "closed" /\ BodyLeft) =>
        /\ seen = pending
        /\ seen \notin DeductionErrors
        /\ Len(yielded) = upos
        /\ \A i \in 1..Len(yielded) : yielded[i] = upstream[i]

\* A stream read to its natural end whose deduction raised.
C7_Witness ==
    /\ gpc = "closed"
    /\ cres[StreamCaller] \in DeductionErrors
    /\ seen = "StopAsyncIteration"
    /\ upstream # <<>>
    /\ yielded = upstream

\* The count the meter reaches when the bytes arrive as one chunk.
WholeCount(bytes) ==
    LET r == ProcessLines(Decode(bytes), 0) IN r.char_count + TailCount(r.buffer)

\* C24: the count the finalizer passes to consume_points does not depend on
\* how the upstream's bytes are split into chunks: for a stream read to its
\* natural end it is the count the same bytes give when they arrive as one
\* chunk, so any two splittings of one byte stream give the same count.
C24_CountIndependentOfChunking ==
    (pending = "StopAsyncIteration" /\ fcalls # <<>>) =>
        fcalls[1].usage_amount = WholeCount(Flatten(upstream))

\* The enabled policy of the stream's workflow meters per call.
StreamPerCall ==
    \E r \in get_point_config_by_workflow_id(cfgs, gwf) :
        r.measure_unit = MU_PER_CALL

\* What the non-streaming path charges for one completed job of the stream's
\* workflow under a PER_CALL policy: router.query_workflow passes usage 1.
OneCallCost == PolicyCost(cfgs, gwf, Some(1))

\* C29: a streamed job under an enabled PER_CALL policy is charged for exactly
\* one call, token * ceil(1 / unit), whatever number of characters the stream
\* carried: the usage the finalizer passes costs what one call costs, and once
\* the generator is closed that amount has been taken from the balance and
\* recorded in one LedgerEntry.
C29_StreamPerCallChargesOneCall ==
    (fcalls # <<>> /\ gpc = "closed" /\ StreamPerCall) =>
        /\ PolicyCost(cfgs, gwf, Some(fcalls[1].usage_amount)) = OneCallCost
        /\ cdebit[StreamCaller] = OneCallCost
        /\ Len(ledger) = 1

\* C30: when the upstream request fails before any upstream event data is
\* received, the meter's billable count stays 0: the error frame forward_sse
\* builds for the caller is not counted, the finalizer passes usage 0 to
\* consume_points, and nothing is deducted.
C30_ErrorFrameNotCounted ==
    upstream \in FailedStreams =>
        /\ char_count = 0
        /\ \A i \in 1..Len(fcalls) : fcalls[i].usage_amount = 0
        /\ bal[StreamUser] = 1
        /\ ledger = <<>>

----------------------------------------------------------------------------
(***************************************************************************)
(* Submit and poll claims                                                  *)
(***************************************************************************)

\* What the job's workflow policy charges for the job's result: the cost of
\* the usage router.query_workflow passes, 0 when it makes no deduction.
JobCost(tid) ==
    IF jobWf[tid] = None THEN 0
    ELSE LET usage == RouterUsage(cfgs, jobWf[tid], jobOut[tid]) IN
         IF usage = {} THEN 0
         ELSE PolicyCost(cfgs, jobWf[tid], CHOOSE x \in usage : TRUE)

\* C1: for every billable job (enabled policy, positive cost) for which a poll
\* has returned the success result, exactly one LedgerEntry exists for the job
\* and the user's balance has been reduced by the job's cost exactly once,
\* whatever the interleaving of submits and polls.
C1_BilledExactlyOnce ==
    \A tid \in TaskIds :
        (delivered[tid] >= 1 /\ JobCost(tid) > 0) =>
            /\ jobEntries[tid] = 1
            /\ jobDebit[tid] = JobCost(tid)

\* What a poll answers when it does not return a success result.
NoSuccessAnswers == {"500 query failed", "500 job failed", "running", "KeyError"}

\* C22: a poll that observes the job failed or still running, or whose query
\* of the job engine fails, ends there with that answer (status 500 for a
\* failure, the running status for a running job) and triggers no deduction:
\* no consume_points call is made, balances and ledger are left as they were.
C22_NoDeductionWithoutSuccess ==
    [][\A h \in Callers :
          (PollResponse(h) /\ (jobs[hreq[h].task_id] # "Success" \/ hpc'[h] = "idle"))
          => /\ hpc'[h] = "idle"
             /\ hret'[h] \in NoSuccessAnswers
             /\ jobs[hreq[h].task_id] = "Fail"
                   => hret'[h] \in {"500 job failed", "500 query failed"}
             /\ jobs[hreq[h].task_id] = "Running"
                   => hret'[h] \in {"running", "500 query failed"}
             /\ UNCHANGED <<bal, ledger, userRows, cfgs>>
             /\ UNCHANGED callVars
             /\ UNCHANGED <<delivered, jobEntries, jobDebit>>]_vars

\* A poll of a failed job of a workflow with an enabled PER_CALL policy has
\* been answered with the failure; nothing has been written to the ledger.
C22_Witness ==
    \E h \in Callers, tid \in TaskIds :
        /\ hpc[h] = "idle" /\ hret[h] = "500 job failed"
        /\ jobs[tid] = "Fail" /\ \A k \in TaskIds \ {tid} : jobs[k] = "none"
        /\ \E r \in cfgs[jobWf[tid]] : r.is_enable = 1 /\ r.measure_unit = MU_PER_CALL
        /\ ledger = <<>>
        /\ \A g \in Callers : cpos[g] = "idle"

\* The polls of the task_id that controller.query_workflow has given the
\* success result: those answered, and those between the deletion of the
\* entry and their answer.
SuccessTaken(tid) ==
    delivered[tid]
    + Cardinality({h \in Callers : hpc[h] \in {"respond", "deduct"}
                                     /\ hreq[h].task_id = tid})

\* C23: a task_id is in the Task Registry if and only if its job was submitted
\* successfully and no poll has been given its success result; the entry holds
\* the workflow the job was submitted for; it is created by the submit, removed
\* by the poll that gets the success result, and by no other step: a poll that
\* observes the job running or failed leaves it, so the entry of a failed job
\* stays forever.
C23_RegistryLifecycle ==
    /\ [](\A tid \in TaskIds :
              /\ tasks[tid] # None <=> (jobs[tid] # "none" /\ SuccessTaken(tid) = 0)
              /\ tasks[tid] # None => tasks[tid] = jobWf[tid])
    /\ [][\A tid \in TaskIds :
              /\ (tasks[tid] = None /\ tasks'[tid] # None)
                    => /\ jobs[tid] = "none" /\ jobs'[tid] = "Running"
                       /\ \E h \in Callers : SubmitResponse(h)
              /\ (tasks[tid] # None /\ tasks'[tid] = None)
                    => /\ jobs[tid] = "Success"
                       /\ \E h \in Callers :
                             /\ PollResponse(h)
                             /\ hreq[h].task_id = tid
                             /\ hpc'[h] \in {"respond", "deduct"}
              /\ (tasks[tid] # None /\ jobs[tid] = "Fail")
                    => tasks'[tid] = tasks[tid]]_vars

\* A job was polled while it ran, which left its entry, and then polled after
\* it succeeded: the success result has been returned and the entry is gone.
C23_Witness ==
    \E tid \in TaskIds, h \in Callers :
        /\ jobs[tid] = "Success" /\ delivered[tid] = 1
        /\ tasks[tid] = None
        /\ hret[h] = "running"
        /\ \A k \in TaskIds \ {tid} : jobs[k] = "none"

\* The handler's poll is made by a user other than the one who submitted the job.
ForeignPoll(h) ==
    /\ hreq[h].task_id # None
    /\ hreq[h].user_uid # jobUser[hreq[h].task_id]

\* C25: the user charged for a non-streamed job is the user who submitted it:
\* a poll by another user of the task_id never removes the submitter's
\* registry entry and never deducts from the polling user's balance, for every
\* interleaving of submits and polls by two users.
C25_OnlySubmitterSettles ==
    [][\A h \in Callers :
          /\ (PollResponse(h) /\ ForeignPoll(h))
                => tasks'[hreq[h].task_id] = tasks[hreq[h].task_id]
          /\ (consume_points(h) /\ ForeignPoll(h))
                => bal'[hreq[h].user_uid] = bal[hreq[h].user_uid]]_vars

\* C27: when polls of one task_id interleave and more than one of them
\* observes the job succeeded, at most one is given the success result and
\* triggers a deduction: the poll that finds the entry removes it and goes on,
\* a poll that finds it already removed ends with the task-not-found error
\* (KeyError) of delete_task, makes no consume_points call and changes nothing.
C27_OnePollTakesSuccess ==
    /\ [](\A tid \in TaskIds : SuccessTaken(tid) <= 1)
    /\ [][\A h \in Callers :
              ( /\ PollResponse(h)
                /\ jobs[hreq[h].task_id] = "Success"
                /\ hret'[h] # "500 query failed" )
              => IF tasks[hreq[h].task_id] = None
                    THEN /\ hpc'[h] = "idle"
                         /\ hret'[h] = "KeyError"
                         /\ UNCHANGED <<tasks, bal, ledger>>
                         /\ UNCHANGED callVars
                         /\ UNCHANGED <<delivered, jobEntries, jobDebit>>
                    ELSE /\ hpc'[h] \in {"respond", "deduct"}
                         /\ tasks'[hreq[h].task_id] = None]_vars

\* Two polls of one job were in flight together and both observed it succeeded
\* under an enabled PER_CALL policy: one has returned the success result, the
\* other has ended with the KeyError.
C27_Witness ==
    \E h1, h2 \in Callers, tid \in TaskIds :
        /\ h1 # h2
        /\ hpc[h1] = "idle" /\ hret[h1] = "success"
        /\ hpc[h2] = "idle" /\ hret[h2] = "KeyError"
        /\ jobs[tid] = "Success" /\ delivered[tid] = 1 /\ tasks[tid] = None
        /\ \E r \in cfgs[jobWf[tid]] : r.is_enable = 1 /\ r.measure_unit = MU_PER_CALL
        /\ \A k \in TaskIds \ {tid} : jobs[k] = "none"

====
